---------------------------- MODULE Spec2Model ----------------------------
(***************************************************************************)
(* A model of loppler (src/src/main.rs): local backups as plain copies     *)
(* (.bak, .bak.d) or zstd-compressed tar archives (.tar.zstd), and their   *)
(* restore.  Strings are sequences of one-character strings, paths are     *)
(* sequences of components, and the filesystem is a function from paths to *)
(* nodes.                                                                  *)
(***************************************************************************)
EXTENDS Integers, Sequences, FiniteSets, TLC

VARIABLES
    fs,        \* the filesystem: existing path -> node
    snap,      \* artifact path -> the source's subtree when it was last backed up
    last,      \* what the last engine call was and what it returned
    pc,        \* position of main / make_archive
    batch,     \* main, Commands::Backup: paths, compress flag, index, outcomes
    cmd,       \* main, Commands::Restore: path, delete, output_dir, cli.confirm, results
    buf,       \* confirm: the line buffer
    input,     \* confirm: the lines read from stdin so far
    ar         \* make_archive: what reached the destination file, and the result

vars == <<fs, snap, last, pc, batch, cmd, buf, input, ar>>

-----------------------------------------------------------------------------
(* Bounds *)

\* byte values of file contents are 0..MaxByte
MaxByte == 1
\* at most this many lines are read from stdin by one confirm call
MaxLines == 3
\* at most this many source paths in one backup invocation
MaxPaths == 3
\* at most this many entries appended to one archive
MaxEntries == 4

-----------------------------------------------------------------------------
(* Strings: sequences of characters *)

\* str::ends_with
EndsWith(s, suf) ==
    /\ Len(suf) <= Len(s)
    /\ SubSeq(s, Len(s) - Len(suf) + 1, Len(s)) = suf

\* str::strip_suffix, for a string that has the suffix
StripSuffix(s, suf) == SubSeq(s, 1, Len(s) - Len(suf))

RECURSIVE Join(_)
\* Path::display: the components separated by "/"
Join(p) ==
    IF p = <<>> THEN <<>>
    ELSE IF Len(p) = 1 THEN p[1]
    ELSE p[1] \o <<"/">> \o Join(Tail(p))

RECURSIVE Split(_)
\* PathBuf::from(string).components(): the nonempty pieces between "/"
Split(s) ==
    IF s = <<>> THEN <<>>
    ELSE LET idx == {i \in 1..Len(s) : s[i] = "/"}
         IN  IF idx = {} THEN <<s>>
             ELSE LET i == CHOOSE j \in idx : \A k \in idx : j <= k
                      head == SubSeq(s, 1, i - 1)
                      rest == Split(SubSeq(s, i + 1, Len(s)))
                  IN  IF head = <<>> THEN rest ELSE <<head>> \o rest

\* the characters str::trim removes
IsSpace(c) == c \in {" ", "\n", "\t"}

RECURSIVE TrimStart(_)
TrimStart(s) ==
    IF s # <<>> /\ IsSpace(s[1]) THEN TrimStart(Tail(s)) ELSE s

RECURSIVE TrimEnd(_)
TrimEnd(s) ==
    IF s # <<>> /\ IsSpace(s[Len(s)]) THEN TrimEnd(SubSeq(s, 1, Len(s) - 1)) ELSE s

\* str::trim
Trim(s) == TrimEnd(TrimStart(s))

LowerChar(c) ==
    CASE c = "Y" -> "y"
      [] c = "E" -> "e"
      [] c = "S" -> "s"
      [] c = "N" -> "n"
      [] c = "O" -> "o"
      [] OTHER -> c

\* str::to_lowercase
ToLower(s) == [i \in 1..Len(s) |-> LowerChar(s[i])]

-----------------------------------------------------------------------------
(* Paths and the filesystem *)

\* the working directory, "."
Cwd == <<>>

\* Path::display
Display(p) == IF p = <<>> THEN <<".">> ELSE Join(p)

\* Path::file_name is Some
HasFileName(p) == p # <<>>

\* Path::file_name, for a path that has one
FileName(p) == p[Len(p)]

\* Path::parent / the directory a relative path lives in
Parent(p) == SubSeq(p, 1, Len(p) - 1)

\* q is p or lies below p
IsUnder(q, p) == Len(p) <= Len(q) /\ SubSeq(q, 1, Len(p)) = p

\* file contents: plain bytes, or what make_archive wrote (the archived entries,
\* entry name -> node)
RawData(b) == [tag |-> "raw", bytes |-> b, tar |-> <<>>]

TarData(entries) == [tag |-> "tar.zstd", bytes |-> <<>>, tar |-> entries]

FileNode(d) == [kind |-> "file", data |-> d]

DirNode == [kind |-> "dir", data |-> RawData(<<>>)]

\* an entry that is neither a file nor a directory (fifo, socket, device)
OtherNode == [kind |-> "other", data |-> RawData(<<>>)]

\* Path::exists, Path::is_dir, Path::is_file
Exists(f, p) == p \in DOMAIN f

IsDir(f, p) == p \in DOMAIN f /\ f[p].kind = "dir"

IsFile(f, p) == p \in DOMAIN f /\ f[p].kind = "file"

\* f with path p set to node n
Put(f, p, n) == [q \in DOMAIN f \cup {p} |-> IF q = p THEN n ELSE f[q]]

\* f without p and everything below it
Without(f, p) == [q \in {x \in DOMAIN f : ~IsUnder(x, p)} |-> f[q]]

\* the names directly inside directory p (fs::read_dir)
ReadDir(f, p) == {q[Len(q)] : q \in {x \in DOMAIN f : Len(x) = Len(p) + 1 /\ IsUnder(x, p)}}

\* the tree at p: relative path -> node
Subtree(f, p) ==
    [r \in {SubSeq(q, Len(p) + 1, Len(q)) : q \in {x \in DOMAIN f : IsUnder(x, p)}}
        |-> f[p \o r]]

\* what a filesystem call returns: whether it succeeded and the filesystem it left
Done(f) == [ok |-> TRUE, fs |-> f]

Failed(f) == [ok |-> FALSE, fs |-> f]

\* std::fs::copy: the source must be a regular file, the destination's directory
\* must exist and the destination must not be a directory; an existing
\* destination file is overwritten
FsCopy(f, from, to) ==
    IF /\ IsFile(f, from)
       /\ HasFileName(to)
       /\ IsDir(f, Parent(to))
       /\ (Exists(f, to) => IsFile(f, to))
    THEN Done(Put(f, to, FileNode(f[from].data)))
    ELSE Failed(f)

RECURSIVE CreateDirAll(_, _)
\* std::fs::create_dir_all: creates dst and its missing ancestors; fails when a
\* component exists and is not a directory
CreateDirAll(f, dst) ==
    IF Exists(f, dst) THEN (IF IsDir(f, dst) THEN Done(f) ELSE Failed(f))
    ELSE LET up == CreateDirAll(f, Parent(dst))
         IN  IF up.ok THEN Done(Put(up.fs, dst, DirNode)) ELSE up

RECURSIVE CopyDirAll(_, _, _)
RECURSIVE CopyEntries(_, _, _, _)
RECURSIVE CopyEntriesFilesOnly(_, _, _, _)
\* the loop of copy_dir_all without the recursion into directories
CopyEntriesFilesOnly(f, src, dst, names) ==
    IF names = {} THEN Done(f)
    ELSE LET n == CHOOSE x \in names : TRUE
             r == IF f[Append(src, n)].kind = "file"
                  THEN FsCopy(f, Append(src, n), Append(dst, n))
                  ELSE Done(f)
         IN  IF r.ok THEN CopyEntriesFilesOnly(r.fs, src, dst, names \ {n}) ELSE r

\* the loop of copy_dir_all over the entries still to visit; it stops at the
\* first error (the `?` operators).  read_dir's order is unspecified: the
\* result of a successful copy does not depend on it
CopyEntries(f, src, dst, names) ==
    IF names = {} THEN Done(f)
    ELSE LET n == CHOOSE x \in names : TRUE
             from == Append(src, n)
             to == Append(dst, n)
             r == IF f[from].kind = "dir" THEN CopyDirAll(f, from, to)
                  ELSE IF f[from].kind = "file" THEN FsCopy(f, from, to)
                  ELSE Done(f)
         IN  IF r.ok THEN CopyEntries(r.fs, src, dst, names \ {n}) ELSE r

\* copy_dir_all.  A destination inside the source makes the code recurse into
\* what it just created until a path grows too long for the system; that ends
\* as an error
CopyDirAll(f, src, dst) ==
    LET made == CreateDirAll(f, dst)
    IN  IF ~made.ok THEN made
        ELSE IF ~IsDir(made.fs, src) \/ IsUnder(dst, src) THEN Failed(made.fs)
        ELSE CopyEntries(made.fs, src, dst, ReadDir(made.fs, src))

-----------------------------------------------------------------------------
(* Path Namer *)

BakSuffix == <<"b", "a", "k">>

BakDSuffix == <<"b", "a", "k", ".", "d">>

TarZstdSuffix == <<"t", "a", "r", ".", "z", "s", "t", "d">>

TarZstSuffix == <<"t", "a", "r", ".", "z", "s", "t">>

Dot == <<".">>

\* add_extension building the new path from the new name alone
AddExtensionNoParent(path, postfix) == <<FileName(path) \o postfix>>

\* add_extension, for a path with a file name (without one it panics): the
\* postfix is appended to the final component, the parent is kept
AddExtension(path, postfix) == Append(Parent(path), FileName(path) \o postfix)

\* remove_extension stripping the suffix and leaving its dot
RemoveExtensionKeepDot(path, suffix) ==
    LET r == Display(path)
    IN  IF EndsWith(r, suffix)
        THEN [some |-> TRUE, path |-> Split(StripSuffix(r, suffix))]
        ELSE [some |-> FALSE, path |-> <<>>]

\* remove_extension: the displayed path without ".<suffix>", parsed as a path
\* again; some = FALSE is the panic "that path did not have that suffix"
RemoveExtension(path, suffix) ==
    LET r == Display(path)
    IN  IF EndsWith(r, Dot \o suffix)
        THEN [some |-> TRUE, path |-> Split(StripSuffix(r, Dot \o suffix))]
        ELSE [some |-> FALSE, path |-> <<>>]

-----------------------------------------------------------------------------
(* Archive Codec *)

\* tar::Builder::append_path(path): one entry, named by the path as given
AppendPath(f, path) ==
    IF IsFile(f, path)
    THEN [ok |-> TRUE, entries |-> [n \in {path} |-> f[path]]]
    ELSE [ok |-> FALSE, entries |-> <<>>]

\* tar::Builder::append_dir_all(name, src): the directory src and everything
\* below it, each entry named name/<relative path>
AppendDirAll(f, name, src) ==
    IF IsDir(f, src)
    THEN [ok |-> TRUE,
          entries |-> [n \in {name \o r : r \in DOMAIN Subtree(f, src)}
                          |-> f[src \o SubSeq(n, Len(name) + 1, Len(n))]]]
    ELSE [ok |-> FALSE, entries |-> <<>>]

\* make_archive with every write succeeding: File::create makes (or empties)
\* the destination, do_this appends, finish and the drops complete the stream.
\* `appended` is what do_this returned
MakeArchive(f, archive_path, appended) ==
    IF ~(IsDir(f, Parent(archive_path)) /\ (Exists(f, archive_path) => IsFile(f, archive_path)))
    THEN Failed(f)
    ELSE IF ~appended.ok
    THEN Failed(Put(f, archive_path, FileNode(RawData(<<>>))))
    ELSE Done(Put(f, archive_path, FileNode(TarData(appended.entries))))

RECURSIVE Unpack(_, _, _, _)
\* tar::Archive::unpack(out): every entry is written at out/<entry name>,
\* directories before what they hold; missing parents are created, an
\* existing file is replaced
Unpack(f, entries, names, out) ==
    IF names = {} THEN Done(f)
    ELSE LET n == CHOOSE x \in names : \A y \in names : Len(x) <= Len(y)
             dst == out \o n
             r == IF entries[n].kind = "dir" THEN CreateDirAll(f, dst)
                  ELSE LET up == CreateDirAll(f, Parent(dst))
                       IN  IF ~up.ok THEN up
                           ELSE IF Exists(up.fs, dst) /\ ~IsFile(up.fs, dst) THEN Failed(up.fs)
                           ELSE Done(Put(up.fs, dst, entries[n]))
         IN  IF r.ok THEN Unpack(r.fs, entries, names \ {n}, out) ELSE r

\* read_archive(path, |a| a.unpack(out)): a file that is no zstd stream fails
\* in the decoder; an empty file decodes to an archive with no entries
ReadArchive(f, path, out) ==
    IF ~IsFile(f, path) THEN Failed(f)
    ELSE LET d == f[path].data
         IN  IF d.tag = "tar.zstd" THEN Unpack(f, d.tar, DOMAIN d.tar, out)
             ELSE IF d.bytes = <<>> THEN Done(f)
             ELSE Failed(f)

-----------------------------------------------------------------------------
(* Backup Engine *)

\* what backup_file / backup_dir return: Ok(artifact), Err, or a panic
BackupResult(status, artifact, f) == [status |-> status, artifact |-> artifact, fs |-> f]

\* backup_file
BackupFile(f, path, compress) ==
    IF ~HasFileName(path) THEN BackupResult("Panic", <<>>, f)
    ELSE IF compress
    THEN LET archive_path == AddExtension(path, Dot \o TarZstdSuffix)
             r == MakeArchive(f, archive_path, AppendPath(f, path))
         IN  BackupResult(IF r.ok THEN "Ok" ELSE "Err", archive_path, r.fs)
    ELSE LET backup_path == AddExtension(path, Dot \o BakSuffix)
             r == FsCopy(f, path, backup_path)
         IN  BackupResult(IF r.ok THEN "Ok" ELSE "Err", backup_path, r.fs)

\* backup_dir
BackupDir(f, path, compress) ==
    IF ~HasFileName(path) THEN BackupResult("Panic", <<>>, f)
    ELSE IF compress
    THEN LET archive_path == AddExtension(path, Dot \o TarZstdSuffix)
             r == MakeArchive(f, archive_path, AppendDirAll(f, path, path))
         IN  BackupResult(IF r.ok THEN "Ok" ELSE "Err", archive_path, r.fs)
    ELSE LET backup_path == AddExtension(path, Dot \o BakDSuffix)
             r == CopyDirAll(f, path, backup_path)
         IN  BackupResult(IF r.ok THEN "Ok" ELSE "Err", backup_path, r.fs)

-----------------------------------------------------------------------------
(* Restore Engine *)

\* what restore returns: Ok, Err(error) or a panic(error), the branch of the
\* suffix dispatch it took, and the filesystem it left
RestoreResult(status, error, route, f) ==
    [status |-> status, error |-> error, route |-> route, fs |-> f]

\* the archive branch of restore
RestoreArchive(f, path, output_dir) ==
    IF ~IsFile(f, path)
    THEN RestoreResult("Panic", "archive name but not an archive", "archive", f)
    ELSE LET r == ReadArchive(f, path, output_dir)
         IN  RestoreResult(IF r.ok THEN "Ok" ELSE "Err", IF r.ok THEN "" ELSE "Io",
                           "archive", r.fs)

\* the bak branch of restore
RestoreBak(f, path, output_dir) ==
    IF ~IsFile(f, path)
    THEN RestoreResult("Panic", "bak name but not a file", "bak", f)
    ELSE LET target == RemoveExtension(path, BakSuffix)
         IN  IF ~target.some
             THEN RestoreResult("Panic", "that path did not have that suffix", "bak", f)
             ELSE IF ~HasFileName(target.path)
             THEN RestoreResult("Panic", "unwrap on None", "bak", f)
             ELSE LET r == FsCopy(f, path, Append(output_dir, FileName(target.path)))
                  IN  RestoreResult(IF r.ok THEN "Ok" ELSE "Err",
                                    IF r.ok THEN "" ELSE "Io", "bak", r.fs)

\* the bak.d branch of restore
RestoreBakD(f, path, output_dir) ==
    IF IsFile(f, path)
    THEN RestoreResult("Panic", "bak.d name but not a directory", "bak.d", f)
    ELSE LET target == RemoveExtension(path, BakDSuffix)
         IN  IF ~target.some
             THEN RestoreResult("Panic", "that path did not have that suffix", "bak.d", f)
             ELSE IF ~HasFileName(target.path)
             THEN RestoreResult("Panic", "unwrap on None", "bak.d", f)
             ELSE LET r == CopyDirAll(f, path, Append(output_dir, FileName(target.path)))
                  IN  RestoreResult(IF r.ok THEN "Ok" ELSE "Err",
                                    IF r.ok THEN "" ELSE "Io", "bak.d", r.fs)

\* the suffix dispatch of restore: which branch the displayed path selects
Classify(path_s) ==
    IF EndsWith(path_s, TarZstdSuffix) \/ EndsWith(path_s, TarZstSuffix) THEN "archive"
    ELSE IF EndsWith(path_s, BakSuffix) THEN "bak"
    ELSE IF EndsWith(path_s, BakDSuffix) THEN "bak.d"
    ELSE "unknown"

\* restore
Restore(f, path, output_dir) ==
    IF ~Exists(f, path) THEN RestoreResult("Err", "NotFound", "none", f)
    ELSE IF ~Exists(f, output_dir) THEN RestoreResult("Err", "NotFound", "none", f)
    ELSE IF ~IsDir(f, output_dir) THEN RestoreResult("Err", "NotFound", "none", f)
    ELSE LET route == Classify(Display(path))
         IN  CASE route = "archive" -> RestoreArchive(f, path, output_dir)
               [] route = "bak" -> RestoreBak(f, path, output_dir)
               [] route = "bak.d" -> RestoreBakD(f, path, output_dir)
               [] OTHER -> RestoreResult("Panic", "unknown file", "unknown", f)

-----------------------------------------------------------------------------
(* The values the variables of the other specifications rest at *)

NoCall ==
    [op |-> "none", path |-> <<>>, compress |-> FALSE, out |-> <<>>, status |-> "",
     error |-> "", route |-> "none", artifact |-> <<>>, pre |-> <<>>]

NoSnap == [src |-> <<>>, kind |-> "", compress |-> FALSE, artifact |-> <<>>, tree |-> <<>>]

NoBatch == [paths |-> <<>>, compress |-> FALSE, idx |-> 1, outcomes |-> <<>>]

NoCmd ==
    [path |-> <<>>, delete |-> FALSE, out |-> <<>>, confirm |-> FALSE, answer |-> ""]

NoArchive == [entries |-> 0, written |-> <<>>, failed |-> "", finished |-> FALSE, result |-> ""]

-----------------------------------------------------------------------------
(* Specification Spec: one source is backed up, the source may then be      *)
(* changed or deleted from outside, and the artifact is restored.           *)

\* file contents of the model
Contents == {<<>>} \cup {<<b>> : b \in 0..MaxByte}

\* names a source may have: plain, and one that itself looks like an artifact
SourceNames == {<<"a">>, <<"n", ".", "b", "a", "k">>}

\* the directory that sources with a parent component live in, and a fresh
\* output directory
ParentDir == <<<<"p">>>>

OutDir == <<<<"o">>>>

\* a filesystem holding only the working directory, ParentDir and OutDir
EmptyFs == [q \in {Cwd, ParentDir, OutDir} |-> DirNode]

\* a source directory tree: two files, an empty subdirectory, and a
\* subdirectory with two files
TreeAt(f, src, c1, c2) ==
    LET x == <<"x">>
        y == <<"y">>
        nodes == [r \in {<<>>, <<x>>, <<y>>, <<<<"e">>>>, <<<<"s">>>>, <<<<"s">>, x>>, <<<<"s">>, y>>}
                    |-> IF r \in {<<>>, <<<<"e">>>>, <<<<"s">>>>} THEN DirNode
                        ELSE IF r \in {<<x>>, <<<<"s">>, y>>} THEN FileNode(RawData(c1))
                        ELSE FileNode(RawData(c2))]
    IN  [q \in DOMAIN f \cup {src \o r : r \in DOMAIN nodes}
            |-> IF IsUnder(q, src) THEN nodes[SubSeq(q, Len(src) + 1, Len(q))] ELSE f[q]]

\* artifacts left by an earlier backup of other content
StaleAt(f, src) ==
    LET bakd == AddExtension(src, Dot \o BakDSuffix)
        f1 == Put(f, AddExtension(src, Dot \o BakSuffix), FileNode(RawData(<<0, 0>>)))
        f2 == Put(f1, AddExtension(src, Dot \o TarZstdSuffix), FileNode(RawData(<<0, 0>>)))
        f3 == Put(f2, bakd, DirNode)
    IN  Put(f3, Append(bakd, <<"z">>), FileNode(RawData(<<0, 0>>)))

\* the state before a backup: a source file or directory tree, given by a
\* path with or without a parent component
InitRoundTrip ==
    /\ \E name \in SourceNames, up \in BOOLEAN, dir \in BOOLEAN, stale \in BOOLEAN,
          c1 \in Contents, c2 \in Contents :
          LET src == IF up THEN Append(ParentDir, name) ELSE <<name>>
              f0 == IF dir THEN TreeAt(EmptyFs, src, c1, c2)
                    ELSE Put(EmptyFs, src, FileNode(RawData(c1)))
          IN  /\ (~dir => c2 = c1)
              /\ fs = (IF stale THEN StaleAt(f0, src) ELSE f0)
              /\ snap = [NoSnap EXCEPT !.src = src, !.kind = IF dir THEN "dir" ELSE "file"]
    /\ last = NoCall
    /\ pc = "idle"
    /\ batch = NoBatch
    /\ cmd = NoCmd
    /\ buf = <<>>
    /\ input = <<>>
    /\ ar = NoArchive

\* backup_dir or backup_file on the source, as main selects them (lines 113-116)
Backup(compress) ==
    /\ pc = "idle"
    /\ LET r == IF IsDir(fs, snap.src) THEN BackupDir(fs, snap.src, compress)
                ELSE BackupFile(fs, snap.src, compress)
       IN  /\ fs' = r.fs
           /\ snap' = [snap EXCEPT !.compress = compress, !.artifact = r.artifact,
                                   !.tree = Subtree(fs, snap.src)]
           /\ last' = [NoCall EXCEPT !.op = "backup", !.path = snap.src,
                                     !.compress = compress, !.status = r.status,
                                     !.artifact = r.artifact, !.pre = fs]
    /\ pc' = "backed"
    /\ UNCHANGED <<batch, cmd, buf, input, ar>>

\* from outside: the source, or an entry below it, is deleted
EnvRemove(p) ==
    /\ pc = "backed"
    /\ Exists(fs, p)
    /\ IsUnder(p, snap.src)
    /\ fs' = Without(fs, p)
    /\ pc' = "changed"
    /\ UNCHANGED <<snap, last, batch, cmd, buf, input, ar>>

\* from outside: a file of the source gets other content
EnvWrite(p, c) ==
    /\ pc = "backed"
    /\ IsFile(fs, p)
    /\ IsUnder(p, snap.src)
    /\ fs[p].data # RawData(c)
    /\ fs' = Put(fs, p, FileNode(RawData(c)))
    /\ pc' = "changed"
    /\ UNCHANGED <<snap, last, batch, cmd, buf, input, ar>>

\* a call of restore(path, out): the filesystem it leaves and what it returned
RestoreCall(path, out) ==
    LET r == Restore(fs, path, out)
    IN  /\ fs' = r.fs
        /\ last' = [NoCall EXCEPT !.op = "restore", !.path = path, !.out = out,
                                  !.status = r.status, !.error = r.error,
                                  !.route = r.route, !.pre = fs]

\* restore of the artifact into an existing directory
DoRestore(out) ==
    /\ pc \in {"backed", "changed"}
    /\ last.status = "Ok"
    /\ IsDir(fs, out)
    /\ RestoreCall(snap.artifact, out)
    /\ pc' = "restored"
    /\ UNCHANGED <<snap, batch, cmd, buf, input, ar>>

NextRoundTrip ==
    \/ \E compress \in BOOLEAN : Backup(compress)
    \/ \E p \in DOMAIN fs : EnvRemove(p)
    \/ \E p \in DOMAIN fs, c \in Contents : EnvWrite(p, c)
    \/ \E out \in {Cwd, ParentDir, OutDir} : DoRestore(out)

Spec == InitRoundTrip /\ [][NextRoundTrip]_vars

-----------------------------------------------------------------------------
(* Claims checked under Spec *)

\* where restore is to put the source again: out/<final name component>
RestoredAt(r) == Append(last.out, FileName(snap.src)) \o r

\* C1: backup_file(F, compress=false) followed by restore(<F>.bak, D) into an
\* existing directory D succeeds and leaves a regular file at D/<final name
\* component of F> with the bytes F had at backup time, also when F was
\* deleted or changed in between.
C1_FileRoundTrip ==
    (pc = "restored" /\ snap.kind = "file" /\ ~snap.compress) =>
        /\ last.path = Append(Parent(snap.src), FileName(snap.src) \o <<".", "b", "a", "k">>)
        /\ last.status = "Ok"
        /\ IsFile(fs, RestoredAt(<<>>))
        /\ fs[RestoredAt(<<>>)].data.bytes = snap.tree[<<>>].data.bytes

\* C1's case: a .bak of a non-empty file restored into the fresh directory
\* after the file itself was deleted
C1_Witness ==
    /\ pc = "restored" /\ snap.kind = "file" /\ ~snap.compress
    /\ last.op = "restore" /\ last.out = OutDir
    /\ ~Exists(last.pre, snap.src)
    /\ snap.tree[<<>>].data.bytes # <<>>
    /\ IsFile(fs, RestoredAt(<<>>))

\* C2: backup_dir(T, compress=false) followed by restore(<T>.bak.d, D) into
\* an existing directory D reproduces under D/<final name component of T>
\* every file of T at its relative path with identical bytes and every
\* directory of T, the empty ones included.
C2_DirRoundTrip ==
    (pc = "restored" /\ snap.kind = "dir" /\ ~snap.compress) =>
        /\ last.path = Append(Parent(snap.src),
                              FileName(snap.src) \o <<".", "b", "a", "k", ".", "d">>)
        /\ last.status = "Ok"
        /\ \A r \in DOMAIN snap.tree :
              /\ Exists(fs, RestoredAt(r))
              /\ fs[RestoredAt(r)] = snap.tree[r]

\* C2's case: a mirror of a tree of depth 2 with an empty subdirectory,
\* restored into the fresh directory after the tree was deleted
C2_Witness ==
    /\ pc = "restored" /\ snap.kind = "dir" /\ ~snap.compress
    /\ last.op = "restore" /\ last.out = OutDir
    /\ ~Exists(last.pre, snap.src)
    /\ IsDir(fs, RestoredAt(<<<<"e">>>>))
    /\ ReadDir(fs, RestoredAt(<<<<"e">>>>)) = {}
    /\ IsFile(fs, RestoredAt(<<<<"s">>, <<"y">>>>))
    /\ snap.tree[<<<<"x">>>>] # snap.tree[<<<<"y">>>>]

\* C3: backup with compress=true writes an archive whose root entry name is
\* the final path component of the source, whatever path the source was given
\* by, so that restore of <S>.tar.zstd into an existing directory D reproduces
\* the content of S at D/<final name component of S>.
C3_ArchiveRoundTrip ==
    /\ (pc = "backed" /\ snap.compress /\ last.status = "Ok") =>
          /\ IsFile(fs, snap.artifact)
          /\ \A n \in DOMAIN fs[snap.artifact].data.tar : n[1] = FileName(snap.src)
    /\ (pc = "restored" /\ snap.compress) =>
          /\ last.status = "Ok"
          /\ \A r \in DOMAIN snap.tree :
                /\ Exists(fs, RestoredAt(r))
                /\ fs[RestoredAt(r)] = snap.tree[r]

\* C3 for sources given by a bare name only
C3_BareNameOnly == Len(snap.src) = 1 => C3_ArchiveRoundTrip

\* C8: a successful backup(source, compress) creates exactly one artifact, in
\* the source's parent directory, named <final path component> + suffix; the
\* source and everything below it stay as they were, and no path outside the
\* artifact path is created or modified.
C8_BackupFrame ==
    (pc = "backed" /\ last.status = "Ok") =>
        LET suffix == IF snap.compress THEN <<".", "t", "a", "r", ".", "z", "s", "t", "d">>
                      ELSE IF snap.kind = "dir" THEN <<".", "b", "a", "k", ".", "d">>
                      ELSE <<".", "b", "a", "k">>
            artifact == Append(Parent(snap.src), FileName(snap.src) \o suffix)
        IN  /\ last.artifact = artifact
            /\ Exists(fs, artifact)
            /\ fs[artifact].kind = (IF snap.kind = "dir" /\ ~snap.compress THEN "dir" ELSE "file")
            /\ Subtree(fs, snap.src) = Subtree(last.pre, snap.src)
            /\ \A q \in DOMAIN last.pre : ~IsUnder(q, artifact) => (Exists(fs, q) /\ fs[q] = last.pre[q])
            /\ \A q \in DOMAIN fs : ~IsUnder(q, artifact) => Exists(last.pre, q)

\* C8's case: a successful backup of a source below ParentDir that replaced
\* an artifact of an earlier backup
C8_Witness ==
    /\ pc = "backed" /\ last.status = "Ok"
    /\ Len(snap.src) = 2
    /\ Exists(last.pre, last.artifact)
    /\ fs[last.artifact] # last.pre[last.artifact]

-----------------------------------------------------------------------------
(* Specification SpecRestoreCmd: main's Restore command on an artifact of   *)
(* any name and any on-disk type, with the confirmation prompt.             *)

\* the artifact names of the model: the four suffixes, the same endings
\* without their dot, and names that carry no suffix
ArtifactNames ==
    { <<"a">> \o Dot \o BakSuffix,
      <<"a">> \o Dot \o BakDSuffix,
      <<"a">> \o Dot \o TarZstdSuffix,
      <<"a">> \o Dot \o TarZstSuffix,
      <<"a">> \o BakSuffix,
      <<"a">> \o BakDSuffix,
      <<"a">> \o TarZstdSuffix,
      <<"a">> \o TarZstSuffix,
      <<"a">> \o Dot \o BakSuffix \o Dot \o TarZstSuffix,
      <<"a">> \o Dot \o BakDSuffix \o Dot \o BakSuffix,
      <<"a", ".", "b">>,
      <<"a">> }

\* what may be on disk under the artifact's name
ArtifactKinds == {"archive", "raw", "dir", "other"}

\* a path that does not exist, and one that is a regular file
MissingPath == <<<<"m">>>>

PlainFile == <<<<"f">>>>

\* the filesystem with `kind` at path p
ArtifactAt(f, p, kind) ==
    CASE kind = "archive" ->
            Put(f, p, FileNode(TarData([n \in {<<<<"a">>>>} |-> FileNode(RawData(<<1>>))])))
      [] kind = "raw" -> Put(f, p, FileNode(RawData(<<1>>)))
      [] kind = "dir" -> Put(Put(f, p, DirNode), Append(p, <<"x">>), FileNode(RawData(<<1>>)))
      [] OTHER -> Put(f, p, OtherNode)

InitRestoreCmd ==
    /\ \E name \in ArtifactNames, kind \in ArtifactKinds, out \in {OutDir, MissingPath, PlainFile},
          present \in BOOLEAN, delete \in BOOLEAN, yes \in BOOLEAN :
          LET f0 == Put(EmptyFs, PlainFile, FileNode(RawData(<<0>>)))
          IN  /\ fs = (IF present THEN ArtifactAt(f0, <<name>>, kind) ELSE f0)
              /\ (~present => kind = "raw")
              /\ cmd = [NoCmd EXCEPT !.path = <<name>>, !.delete = delete, !.out = out,
                                     !.confirm = yes]
    /\ last = NoCall
    /\ pc = "main"
    /\ snap = NoSnap
    /\ batch = NoBatch
    /\ buf = <<>>
    /\ input = <<>>
    /\ ar = NoArchive

\* recursive_remove using remove_file for every kind of entry: it fails on a
\* directory and leaves it
RecursiveRemoveFilesOnly(f, path) ==
    IF IsFile(f, path) THEN Without(f, path) ELSE f

\* recursive_remove: a directory with everything below it, a file, or nothing
\* for an entry of another kind
RecursiveRemove(f, path) ==
    IF IsDir(f, path) THEN Without(f, path)
    ELSE IF IsFile(f, path) THEN Without(f, path)
    ELSE f

\* the match in confirm: what the buffer is taken for
Answer(b) ==
    IF b \in {<<"y">>, <<"y", "e", "s">>} THEN "yes"
    ELSE IF b \in {<<>>, <<"n">>, <<"n", "o">>} THEN "no"
    ELSE ""

\* main, Commands::Restore, up to the first read from stdin: restore; on
\* success and with delete set, removal at once under --yes, else the prompt
MainRestore ==
    /\ pc = "main"
    /\ LET r == Restore(fs, cmd.path, cmd.out)
       IN  /\ last' = [NoCall EXCEPT !.op = "restore", !.path = cmd.path, !.out = cmd.out,
                                     !.status = r.status, !.error = r.error,
                                     !.route = r.route, !.pre = fs]
           /\ IF r.status # "Ok" THEN fs' = r.fs /\ pc' = "exit"
              ELSE IF ~cmd.delete THEN fs' = r.fs /\ pc' = "done"
              ELSE IF cmd.confirm THEN fs' = RecursiveRemove(r.fs, cmd.path) /\ pc' = "done"
              ELSE fs' = r.fs /\ pc' = "confirm"
    /\ UNCHANGED <<snap, batch, cmd, buf, input, ar>>

\* confirm, one turn of its loop: read_line appends the line to buf, buf is
\* trimmed and lower-cased, and a recognized answer returns to main, which
\* removes the artifact on yes
ReadLine(line) ==
    /\ pc = "confirm"
    /\ Len(input) < MaxLines
    /\ input' = Append(input, line)
    /\ LET b == ToLower(Trim(buf \o line))
       IN  /\ buf' = b
           /\ cmd' = [cmd EXCEPT !.answer = Answer(b)]
           /\ CASE Answer(b) = "yes" -> fs' = RecursiveRemove(fs, cmd.path) /\ pc' = "done"
                [] Answer(b) = "no" -> fs' = fs /\ pc' = "done"
                [] OTHER -> fs' = fs /\ pc' = "confirm"
    /\ UNCHANGED <<snap, last, batch, ar>>

\* the lines stdin may deliver; the empty sequence is end of input
Lines ==
    { <<"y", "\n">>,
      <<" ", "Y", "e", "s", " ", "\n">>,
      <<"\n">>,
      <<"N", "o", "\n">>,
      <<"y", "e", "\n">>,
      <<"s", "\n">>,
      <<>> }

NextRestoreCmd ==
    \/ MainRestore
    \/ \E line \in Lines : ReadLine(line)

SpecRestoreCmd == InitRestoreCmd /\ [][NextRestoreCmd]_vars

-----------------------------------------------------------------------------
(* Claims checked under SpecRestoreCmd *)

\* restore was called on an existing artifact with an existing output directory
Dispatched == last.op = "restore" /\ Exists(last.pre, last.path) /\ IsDir(last.pre, last.out)

\* the suffix classes as the specification names them, each with its dot
NamedArchive ==
    \/ EndsWith(Display(last.path), <<".", "t", "a", "r", ".", "z", "s", "t", "d">>)
    \/ EndsWith(Display(last.path), <<".", "t", "a", "r", ".", "z", "s", "t">>)

NamedBakD == EndsWith(Display(last.path), <<".", "b", "a", "k", ".", "d">>)

NamedBak == EndsWith(Display(last.path), <<".", "b", "a", "k">>)

\* C4: restore's suffix classification is exhaustive and mutually exclusive:
\* a path goes to archive decode exactly when it ends in .tar.zstd or
\* .tar.zst, to tree copy-back exactly when it ends in .bak.d, to plain-file
\* copy-back exactly when it ends in .bak, and every other name yields the
\* UnrecognizedFormat failure and is handled as none of the three.
C4_SuffixDispatch ==
    Dispatched =>
        /\ (last.route = "archive") <=> NamedArchive
        /\ (last.route = "bak.d") <=> NamedBakD
        /\ (last.route = "bak") <=> NamedBak
        /\ ~(NamedArchive \/ NamedBakD \/ NamedBak) =>
              (last.route = "unknown" /\ last.status # "Ok" /\ last.error = "unknown file")

\* the on-disk entry is not of the type the suffix implies
TypeMismatch ==
    \/ (NamedArchive \/ NamedBak) /\ ~IsFile(last.pre, last.path)
    \/ NamedBakD /\ ~IsDir(last.pre, last.path)

\* C5: when artifact and output directory exist but the on-disk type does not
\* match the suffix, restore returns the InvalidArtifact error as its result
\* value (no crash) and writes nothing into the output directory.
C5_InvalidArtifact ==
    (Dispatched /\ TypeMismatch) =>
        /\ last.status = "Err"
        /\ last.error = "InvalidArtifact"
        /\ Subtree(fs, last.out) = Subtree(last.pre, last.out)

\* the confirmation decision: the --yes flag, or what confirm returned
Decision == IF cmd.confirm THEN "yes" ELSE cmd.answer

\* C6: the artifact is removed only after restore returned success and only
\* if delete was requested and the decision is yes; with delete and "no" it
\* still exists afterwards, with delete and "yes" after a successful restore
\* it does not; when restore fails or delete is off it is never removed and
\* no confirmation is asked for.
C6_DeletionGating ==
    /\ (pc # "main" /\ Exists(last.pre, cmd.path) /\ ~Exists(fs, cmd.path)) =>
          (last.status = "Ok" /\ cmd.delete /\ Decision = "yes")
    /\ (pc = "done" /\ cmd.delete /\ Decision = "yes") => ~Exists(fs, cmd.path)
    /\ (pc = "done" /\ cmd.delete /\ Decision = "no") =>
          (Exists(fs, cmd.path) /\ fs[cmd.path] = last.pre[cmd.path])
    /\ (pc # "main" /\ (last.status # "Ok" \/ ~cmd.delete)) =>
          /\ pc # "confirm" /\ input = <<>> /\ cmd.answer = ""
          /\ Subtree(fs, cmd.path) = Subtree(last.pre, cmd.path)

\* C6's case: a mirror directory restored with delete set and no --yes, the
\* prompt answered yes, and the mirror removed with everything below it
C6_Witness ==
    /\ pc = "done" /\ cmd.delete /\ ~cmd.confirm /\ cmd.answer = "yes"
    /\ last.status = "Ok"
    /\ IsDir(last.pre, cmd.path)
    /\ \A q \in DOMAIN fs : ~IsUnder(q, cmd.path)

\* a line that was entered (not the end of input) and that, trimmed and
\* lower-cased, is a recognized answer
Recognized(line) == line # <<>> /\ Answer(ToLower(Trim(line))) # ""

\* C9: confirm returns at the first line that, trimmed and lower-cased, is
\* y/yes (true) or empty/n/no (false), however many unrecognized lines came
\* before it.
C9_ConfirmFirstRecognized ==
    /\ pc = "confirm" => \A i \in 1..Len(input) : ~Recognized(input[i])
    /\ (cmd.answer # "" /\ input[Len(input)] # <<>>) =>
          /\ cmd.answer = Answer(ToLower(Trim(input[Len(input)])))
          /\ \A i \in 1..(Len(input) - 1) : ~Recognized(input[i])

-----------------------------------------------------------------------------
(* Specification SpecBatch: main's Backup command over a list of paths.     *)

\* the paths a batch may name: a file, a directory, nothing, a fifo, the
\* working directory itself (a path without a file name), and a file whose
\* artifact names are taken by directories
FilePath == <<<<"a">>>>

TreePath == <<<<"d">>>>

FifoPath == <<<<"q">>>>

BlockedPath == <<<<"b">>>>

BatchPaths == {FilePath, TreePath, MissingPath, FifoPath, Cwd, BlockedPath}

BatchFs ==
    LET f1 == Put(EmptyFs, FilePath, FileNode(RawData(<<1>>)))
        f2 == Put(Put(f1, TreePath, DirNode), Append(TreePath, <<"x">>), FileNode(RawData(<<0>>)))
        f3 == Put(Put(f2, FifoPath, OtherNode), BlockedPath, FileNode(RawData(<<1>>)))
        f4 == Put(f3, AddExtension(BlockedPath, Dot \o BakSuffix), DirNode)
    IN  Put(f4, AddExtension(BlockedPath, Dot \o TarZstdSuffix), DirNode)

\* the sequences over S of length 1..n
SeqsUpTo(S, n) == UNION {[1..k -> S] : k \in 1..n}

InitBatch ==
    /\ fs = BatchFs
    /\ \E paths \in SeqsUpTo(BatchPaths, MaxPaths), compress \in BOOLEAN :
          batch = [NoBatch EXCEPT !.paths = paths, !.compress = compress]
    /\ pc = "batch"
    /\ last = NoCall
    /\ snap = NoSnap
    /\ cmd = NoCmd
    /\ buf = <<>>
    /\ input = <<>>
    /\ ar = NoArchive

\* the body of the loop over paths: what happens to one path
BackupOne(f, path, compress) ==
    IF ~Exists(f, path) THEN BackupResult("Missing", <<>>, f)
    ELSE IF IsDir(f, path) THEN BackupDir(f, path, compress)
    ELSE IF IsFile(f, path) THEN BackupFile(f, path, compress)
    ELSE BackupResult("Panic", <<>>, f)

\* a loop that returns the first error, as `?` on the result would
GoesOnOnlyAfterOk(status) == status = "Ok"

\* whether the loop goes on after a path with this outcome: a missing path is
\* skipped (continue), an error is printed, a panic ends the process
GoesOn(status) == status # "Panic"

\* main, Commands::Backup: one turn of the loop; after the last path main
\* returns
BackupNext ==
    /\ pc = "batch"
    /\ batch.idx <= Len(batch.paths)
    /\ LET path == batch.paths[batch.idx]
           r == BackupOne(fs, path, batch.compress)
           more == batch.idx < Len(batch.paths)
       IN  /\ fs' = r.fs
           /\ batch' = [batch EXCEPT
                 !.idx = @ + 1,
                 !.outcomes = Append(@, [path |-> path, status |-> r.status,
                                         artifact |-> r.artifact])]
           /\ pc' = IF ~GoesOn(r.status) THEN "aborted"
                    ELSE IF more THEN "batch" ELSE "done"
    /\ UNCHANGED <<snap, last, cmd, buf, input, ar>>

NextBatch == BackupNext

SpecBatch == InitBatch /\ [][NextBatch]_vars

\* a path main can back up: a file or directory with a file name whose
\* artifact name is not taken by an entry of the other kind
Valid(path, compress) ==
    /\ HasFileName(path)
    /\ IsFile(BatchFs, path) \/ IsDir(BatchFs, path)
    /\ LET artifact == AddExtension(path, IF compress THEN Dot \o TarZstdSuffix
                                          ELSE IF IsDir(BatchFs, path) THEN Dot \o BakDSuffix
                                          ELSE Dot \o BakSuffix)
       IN  Exists(BatchFs, artifact) =>
              (IsDir(BatchFs, artifact) <=> (IsDir(BatchFs, path) /\ ~compress))

\* C7: the paths of one backup invocation are processed strictly in list
\* order, and a failure on one path (it does not exist, or its backup returns
\* an error) is reported and does not abort the batch: the later paths are
\* still attempted, and a valid file or directory among them gets its
\* artifact; of three paths with the second missing, the first and the third
\* get theirs.
C7_BatchResilience ==
    /\ Len(batch.outcomes) = batch.idx - 1
    /\ \A i \in 1..Len(batch.outcomes) :
          LET o == batch.outcomes[i]
          IN  /\ o.path = batch.paths[i]
              /\ ~Exists(BatchFs, o.path) => o.status = "Missing"
              /\ Valid(o.path, batch.compress) => o.status = "Ok"
              /\ o.status = "Ok" => Exists(fs, o.artifact)
              /\ (o.status \in {"Missing", "Err"} /\ i < Len(batch.paths)) =>
                    (i < Len(batch.outcomes) \/ pc = "batch")
    /\ pc = "aborted" => batch.outcomes[Len(batch.outcomes)].status = "Panic"
    /\ pc = "done" => Len(batch.outcomes) = Len(batch.paths)
    /\ pc = "batch" => batch.idx <= Len(batch.paths)

\* C7's case: three paths, the second missing, the first and third backed up
C7_Witness ==
    /\ pc = "done"
    /\ Len(batch.paths) = 3
    /\ batch.outcomes[1].status = "Ok" /\ Exists(fs, batch.outcomes[1].artifact)
    /\ batch.outcomes[2].status = "Missing"
    /\ batch.outcomes[3].status = "Ok" /\ Exists(fs, batch.outcomes[3].artifact)
    /\ batch.outcomes[3].artifact # batch.outcomes[1].artifact

-----------------------------------------------------------------------------
(* Specification SpecArchive: make_archive stage by stage, where every      *)
(* write to the destination may fail.                                       *)

InitArchive ==
    /\ \E n \in 1..MaxEntries : ar = [NoArchive EXCEPT !.entries = n]
    /\ pc = "create"
    /\ fs = EmptyFs
    /\ last = NoCall
    /\ snap = NoSnap
    /\ batch = NoBatch
    /\ cmd = NoCmd
    /\ buf = <<>>
    /\ input = <<>>

\* the entries written so far
Appended == Cardinality({i \in 1..Len(ar.written) : ar.written[i] = "entry"})

\* make_archive returns Err(e) from the stage that failed
ReturnErr(stage) == ar' = [ar EXCEPT !.failed = stage, !.result = "Err"]

\* fs::File::create(archive_path)?
CreateFile(ok) ==
    /\ pc = "create"
    /\ IF ok THEN ar' = ar /\ pc' = "encoder"
       ELSE ReturnErr("create") /\ pc' = "returned"
    /\ UNCHANGED <<fs, snap, last, batch, cmd, buf, input>>

\* zstd::Encoder::new(compressed_file, DEFAULT_COMPRESSION_LEVEL)?.auto_finish()
NewEncoder(ok) ==
    /\ pc = "encoder"
    /\ IF ok THEN ar' = ar /\ pc' = "append"
       ELSE ReturnErr("encoder") /\ pc' = "returned"
    /\ UNCHANGED <<fs, snap, last, batch, cmd, buf, input>>

\* do_this(&mut archiver)?: one entry appended; an error returns from
\* make_archive, which drops the archiver and the compressor on the way
AppendEntry(ok) ==
    /\ pc = "append"
    /\ IF ok
       THEN /\ ar' = [ar EXCEPT !.written = Append(@, "entry")]
            /\ pc' = IF Appended + 1 = ar.entries THEN "finish" ELSE "append"
       ELSE ReturnErr("append") /\ pc' = "drop_builder"
    /\ UNCHANGED <<fs, snap, last, batch, cmd, buf, input>>

\* archiver.finish()?: the end-of-archive blocks; then Ok(()) is the value
\* to return
FinishArchive(ok) ==
    /\ pc = "finish"
    /\ IF ok
       THEN ar' = [ar EXCEPT !.written = Append(@, "tar_end"), !.finished = TRUE,
                             !.result = "Ok"]
       ELSE ar' = [ar EXCEPT !.failed = "finish", !.finished = TRUE, !.result = "Err"]
    /\ pc' = "drop_builder"
    /\ UNCHANGED <<fs, snap, last, batch, cmd, buf, input>>

\* the archiver goes out of scope: tar::Builder's drop calls finish again and
\* discards its result; after an explicit finish it writes nothing
DropBuilder(ok) ==
    /\ pc = "drop_builder"
    /\ IF ar.finished THEN ok /\ ar' = ar
       ELSE IF ok THEN ar' = [ar EXCEPT !.written = Append(@, "tar_end"), !.finished = TRUE]
       ELSE ar' = [ar EXCEPT !.finished = TRUE]
    /\ pc' = "drop_encoder"
    /\ UNCHANGED <<fs, snap, last, batch, cmd, buf, input>>

\* the compressor goes out of scope: AutoFinishEncoder's drop finishes the
\* zstd stream.  No error can be returned from a drop: depending on the zstd
\* crate's version a failure there is discarded or panics
DropEncoder(ok, panics) ==
    /\ pc = "drop_encoder"
    /\ IF ok THEN ~panics /\ ar' = [ar EXCEPT !.written = Append(@, "zstd_end")]
       ELSE ar' = [ar EXCEPT !.failed = IF @ = "" THEN "zstd_finish" ELSE @,
                             !.result = IF panics THEN "Panic" ELSE @]
    /\ pc' = "returned"
    /\ UNCHANGED <<fs, snap, last, batch, cmd, buf, input>>

NextArchive ==
    \/ \E ok \in BOOLEAN : CreateFile(ok)
    \/ \E ok \in BOOLEAN : NewEncoder(ok)
    \/ \E ok \in BOOLEAN : AppendEntry(ok)
    \/ \E ok \in BOOLEAN : FinishArchive(ok)
    \/ \E ok \in BOOLEAN : DropBuilder(ok)
    \/ \E ok \in BOOLEAN, panics \in BOOLEAN : DropEncoder(ok, panics)

SpecArchive == InitArchive /\ [][NextArchive]_vars

\* C10: make_archive reports success only if every stage succeeded: a failure
\* to open the destination, to append an entry, to write the end-of-archive
\* trailer or to finalize the compressor's last frame makes it return an Io
\* error; it never returns Ok over a truncated artifact.
C10_ArchiveErrorsSurface ==
    pc = "returned" =>
        /\ ar.failed \in {"create", "encoder", "append", "finish", "zstd_finish"} =>
              ar.result # "Ok"
        /\ ar.result = "Ok" =>
              (ar.written # <<>> /\ ar.written[Len(ar.written)] = "zstd_end")

=============================================================================
